---- MODULE Spec2Model ----
(***************************************************************************)
(* Model of phase_diagram_calculator.py: the composition-mesh generator    *)
(* mesh_concentrations and the orchestrator run_phase_diagram_calculations *)
(* with the engine session, the calculation steps and the result files.    *)
(*                                                                         *)
(* Numbers.  The program computes with IEEE-754 doubles and so does the    *)
(* model: a float is held exactly, as a sign and a magnitude in binary     *)
(* fixed point, and every operation on floats rounds its exact result to   *)
(* 53 significant bits, ties to even, as the hardware does.  A constant    *)
(* concentration c is given as an integer number of 1/Unit and converted   *)
(* to the double nearest to c/Unit.                                        *)
(***************************************************************************)
EXTENDS Integers, Sequences, FiniteSets, TLC

\* ------------------------------------------------------------------ state
VARIABLES
    n,                              \* iteration count
    constant_C_of_others,           \* list of constant concentrations (1/Unit)
    indices_of_changing_elements,   \* two row indices
    indices_of_constant_elements,   \* row indices
    output_dir_exists,              \* os.path.exists(output_dir)
    pc,                             \* position of the run
    p,                              \* position in constant_C_of_others (from 1)
    i,                              \* grid index of the inner loop
    input_concentrations,           \* matrix of the current sweep (floats)
    counter,                        \* system counter
    x,                              \* <<Al_x, Cr_x, Co_x, Fe_x, Ni_x>> of the point
    max_concentration_on_x_axis,    \* round(1 - Cr - Co - Fe - Ni, 3), in 1/1000
    session,                        \* engine sessions open
    left_open,                      \* sessions whose __exit__ raised and did
                                    \* not close them
    conditions,                     \* <<Cr, Co, Fe, Ni>> set on the calculator
    files,                          \* file name -> <<point written, complete>>
    attempts,                       \* log: points <<p, i>> started
    sessions_opened,                \* sessions opened for the point being processed
    saved,                          \* log: results saved [p, i, name, x, conditions]
    skipped,                        \* points given up after the unrecoverable failure
    fatal_at                        \* point at which another error was raised

vars == << n, constant_C_of_others, indices_of_changing_elements,
           indices_of_constant_elements, output_dir_exists, pc, p, i,
           input_concentrations, counter, x, max_concentration_on_x_axis,
           session, left_open, conditions, files, attempts, sessions_opened,
           saved, skipped, fatal_at >>

inputs == << n, constant_C_of_others, indices_of_changing_elements,
             indices_of_constant_elements >>

\* ---------------------------------------------------------------- bounds
\* Largest iteration count n tried (n ranges over 0..MaxN).
MaxN == 4
\* Longest list constant_C_of_others tried.
MaxLen == 2

\* c is counted in 1/Unit: thirtieths hold the tenths and 1/3.
Unit == 3 * 10
\* Constant concentrations tried: 1/30, 0.1, 1/3 (sweep range 0), 0.4
\* (3c > 1).
CValues == {1, 3, 10, 12}

\* The element list ["Al", "Cr", "Co", "Fe", "Ni"]: row indices 0..4.
Rows == 0 .. 4

\* (indices_of_changing_elements, indices_of_constant_elements) tried.  The
\* first is the default; the last is not a valid layout (a constant index
\* that is also a changing index).
IndexConfigs ==
    { << <<0, 1>>, <<2, 3, 4>> >>,
      << <<2, 1>>, <<0, 3, 4>> >>,
      << <<0, 1>>, <<1, 2, 3>> >> }

Range(s) == { s[k] : k \in DOMAIN s }

\* Two distinct changing indices, three distinct constant indices, none shared.
ValidIndices(chg, cst) ==
    /\ Len(chg) = 2 /\ chg[1] # chg[2]
    /\ Len(cst) = 3 /\ Cardinality(Range(cst)) = 3
    /\ Range(chg) \cap Range(cst) = {}

\* ------------------------------------------------------ float arithmetic
\* A magnitude is a sequence of limbs, most significant first, each in
\* 0 .. Base-1.  The magnitude of a float has five limbs <<a0, .., a4>> and
\* the value a0 + a1/Base + a2/Base^2 + a3/Base^3 + a4/Base^4: an integer
\* part and 80 fraction bits.  A float is <<sign, a0, a1, a2, a3, a4>> with
\* sign 1 or -1; zero has sign 1.  Every double of magnitude 0 or in
\* [2^-27, 2^20) is held exactly, and so is every difference of two of them
\* that has at most 53 significant bits.
Base == 2 ^ 20
LimbBits == 4 * 5

Sign(f) == f[1]
Mag(f) == Tail(f)
IsZeroMag(A) == \A k \in DOMAIN A : A[k] = 0
MkFloat(s, A) == << IF IsZeroMag(A) THEN 1 ELSE s >> \o A

Zero == << 1, 0, 0, 0, 0, 0 >>
One == << 1, 1, 0, 0, 0, 0 >>

\* The limbs S[1..k] with carry cy added at limb k, every limb brought into
\* 0 .. Base-1 by carrying to the left.
RECURSIVE Carry(_, _, _)
Carry(S, k, cy) ==
    IF k = 0 THEN << >>
    ELSE LET t == S[k] + cy
         IN  Carry(S, k - 1, t \div Base) \o << t % Base >>

MagAdd(A, B) == Carry([k \in DOMAIN A |-> A[k] + B[k]], Len(A), 0)
\* A - B for A >= B.
MagSub(A, B) == Carry([k \in DOMAIN A |-> A[k] - B[k]], Len(A), 0)
\* A * m for a natural number m < 2^11.
MagMul(A, m) == Carry([k \in DOMAIN A |-> A[k] * m], Len(A), 0)

MagLess(A, B) ==
    \E k \in DOMAIN A : A[k] < B[k] /\ \A j \in 1 .. k - 1 : A[j] = B[j]

\* Long division of the limbs A[k..] by m (0 < m < 2^11) with remainder rem
\* carried in: << quotient limbs, remainder >>.
RECURSIVE DivStep(_, _, _, _)
DivStep(A, k, m, rem) ==
    IF k > Len(A) THEN << << >>, rem >>
    ELSE LET t == rem * Base + A[k]
             rest == DivStep(A, k + 1, m, t % m)
         IN  << << t \div m >> \o rest[1], rest[2] >>

\* << floor(A / m), A mod m >>.
MagDiv(A, m) == DivStep(A, 1, m, 0)

\* Number of significant bits of a limb, of a magnitude.
BitsOfLimb(a) ==
    CHOOSE b \in 0 .. LimbBits : a < 2 ^ b /\ (b = 0 \/ a >= 2 ^ (b - 1))
BitLength(A) ==
    IF IsZeroMag(A) THEN 0
    ELSE LET top == CHOOSE k \in DOMAIN A : A[k] # 0 /\ \A j \in 1 .. k - 1 : A[j] = 0
         IN  (Len(A) - top) * LimbBits + BitsOfLimb(A[top])

\* The magnitude A (plus something below its last bit if sticky) rounded to
\* 53 significant bits, ties to even: the rounding of every IEEE-754 double
\* operation.  d low bits are dropped; the bit below the cut is the guard.
Round53(A, sticky) ==
    LET d == BitLength(A) - 53
    IN  IF d <= 0 THEN A
        ELSE LET L == Len(A)
                 gl == L - ((d - 1) \div LimbBits)
                 gb == (d - 1) % LimbBits
                 guard == (A[gl] \div (2 ^ gb)) % 2
                 below == \/ sticky
                          \/ A[gl] % (2 ^ gb) # 0
                          \/ \E k \in gl + 1 .. L : A[k] # 0
                 ul == L - (d \div LimbBits)
                 ub == d % LimbBits
                 lsb == (A[ul] \div (2 ^ ub)) % 2
                 kept == [k \in 1 .. L |->
                            IF k < ul THEN A[k]
                            ELSE IF k = ul THEN A[k] - (A[k] % (2 ^ ub))
                            ELSE 0]
                 ulp == [k \in 1 .. L |-> IF k = ul THEN 2 ^ ub ELSE 0]
             IN  IF guard = 1 /\ (below \/ lsb = 1)
                 THEN MagAdd(kept, ulp)
                 ELSE Carry(kept, L, 0)

FNeg(u) == MkFloat(- Sign(u), Mag(u))

\* x + y, x - y of doubles.
FAdd(u, y) ==
    IF Sign(u) = Sign(y)
    THEN MkFloat(Sign(u), Round53(MagAdd(Mag(u), Mag(y)), FALSE))
    ELSE IF MagLess(Mag(u), Mag(y))
         THEN MkFloat(Sign(y), Round53(MagSub(Mag(y), Mag(u)), FALSE))
         ELSE MkFloat(Sign(u), Round53(MagSub(Mag(u), Mag(y)), FALSE))
FSub(u, y) == FAdd(u, FNeg(y))

\* x * m and x / m of a double x and a natural number m (m > 0 for x / m).
FMul(u, m) == MkFloat(Sign(u), Round53(MagMul(Mag(u), m), FALSE))
FDiv(u, m) ==
    LET qr == MagDiv(Mag(u), m)
    IN  MkFloat(Sign(u), Round53(qr[1], qr[2] # 0))

\* The double of a natural number k < Base; the double nearest to c/Unit:
\* float(j) of line 133 for the list entry written as c/Unit.
FromInt(k) == << 1, k, 0, 0, 0, 0 >>
FloatOf(c) == FDiv(FromInt(c), Unit)

IsNegative(u) == Sign(u) = -1

\* The exact sum of two floats as a signed magnitude (no rounding).
ExactAdd(u, y) ==
    IF Sign(u) = Sign(y) THEN MkFloat(Sign(u), MagAdd(Mag(u), Mag(y)))
    ELSE IF MagLess(Mag(u), Mag(y))
         THEN MkFloat(Sign(y), MagSub(Mag(y), Mag(u)))
         ELSE MkFloat(Sign(u), MagSub(Mag(u), Mag(y)))

\* ------------------------------------------------------ mesh_concentrations
\* np.linspace(0, stop, n) as numpy computes it: step = stop / (n - 1), entry
\* i is i * step, each rounded, and the last entry is set to stop itself; with
\* step = 0 every entry is (i / (n - 1)) * 0 = 0; for n = 1 the only entry is
\* 0 * stop = 0.
\* Fault variant: start and stop swapped, linspace(stop, 0, n).
linspace_reversed(stop, num) ==
    LET div == num - 1
        step == IF div > 0 THEN FDiv(stop, div) ELSE Zero
    IN  [col \in 0 .. num - 1 |->
            IF num > 1 /\ col = 0 THEN stop
            ELSE IF step = Zero THEN Zero
            ELSE FMul(step, num - 1 - col)]
linspace(stop, num) ==
    LET div == num - 1
        step == IF div > 0 THEN FDiv(stop, div) ELSE Zero
    IN  [col \in 0 .. num - 1 |->
            IF num > 1 /\ col = num - 1 THEN stop
            ELSE IF step = Zero THEN Zero
            ELSE FMul(step, col)]

\* The matrix returned by mesh_concentrations, rows 0..4 by columns 0..n-1,
\* for the constant concentration c/Unit.  Per column the code writes c to
\* the constant rows, then the sweep value to the first changing row, then
\* 1 - mole_fractions[i] - 3 * c to the second changing row: a later write
\* wins.
\* Fault variant: the remainder computed with 2c instead of 3c.
mesh_concentrations_2c(num, chg, cst, c) ==
    LET constant_concentration == FloatOf(c)
        mole_fractions ==
            linspace(FSub(One, FMul(constant_concentration, 3)), num)
    IN  [r \in Rows |-> [col \in 0 .. num - 1 |->
            IF r = chg[2]
            THEN FSub(FSub(One, mole_fractions[col]), FMul(constant_concentration, 2))
            ELSE IF r = chg[1] THEN mole_fractions[col]
            ELSE IF r \in Range(cst) THEN constant_concentration
            ELSE Zero]]
mesh_concentrations(num, chg, cst, c) ==
    LET constant_concentration == FloatOf(c)
        mole_fractions ==
            linspace(FSub(One, FMul(constant_concentration, 3)), num)
    IN  [r \in Rows |-> [col \in 0 .. num - 1 |->
            IF r = chg[2]
            THEN FSub(FSub(One, mole_fractions[col]), FMul(constant_concentration, 3))
            ELSE IF r = chg[1] THEN mole_fractions[col]
            ELSE IF r \in Range(cst) THEN constant_concentration
            ELSE Zero]]

\* The five mole fractions of column i of matrix m: rows 0..4.
Column(m, col) == << m[0][col], m[1][col], m[2][col], m[3][col], m[4][col] >>

\* round(1.0 - Cr_x - Co_x - Fe_x - Ni_x, 3) for x = <<Al_x, .., Ni_x>>,
\* counted in 1/1000.  round(v, 3) rounds the exact value of the double v to
\* thousandths, ties to even, and returns the double nearest to that; the
\* model holds the number of thousandths.
Round3(v) ==
    LET T == MagMul(Mag(v), 1000)
        q == T[1]
        frac == Tail(T)
        half == << Base \div 2, 0, 0, 0 >>
        up == IF frac = half THEN q % 2 = 1 ELSE ~ MagLess(frac, half)
    IN  Sign(v) * (IF up THEN q + 1 ELSE q)
max_concentration(u) ==
    Round3(FSub(FSub(FSub(FSub(One, u[2]), u[3]), u[4]), u[5]))

\* ------------------------------------------------------------- file names
DigitChar(d) == <<"0", "1", "2", "3", "4", "5", "6", "7", "8", "9">>[d + 1]

\* Decimal digits of a natural number, as a string.
RECURSIVE NatStr(_)
NatStr(k) == IF k < 10 THEN DigitChar(k) ELSE NatStr(k \div 10) \o DigitChar(k % 10)

\* The digits ds[a..b] as a string; k zeros as a string.
RECURSIVE DigitStr(_, _, _)
DigitStr(ds, a, b) ==
    IF a > b THEN "" ELSE DigitChar(ds[a]) \o DigitStr(ds, a + 1, b)
RECURSIVE Zeros(_)
Zeros(k) == IF k <= 0 THEN "" ELSE "0" \o Zeros(k - 1)

\* A magnitude with two more integer limbs: room for 17 decimal digits.
Wide(A) == << 0, 0 >> \o A
WideInt(W) == << W[1], W[2], W[3], 0, 0, 0, 0 >>
WideOne == << 0, 0, 1, 0, 0, 0, 0 >>

\* W (not 0, below 10) times the power of ten that brings it into [1, 10):
\* << scaled magnitude, exponent of that power >>.
RECURSIVE ScaleUp(_, _)
ScaleUp(W, k) ==
    IF W[1] # 0 \/ W[2] # 0 \/ W[3] # 0 THEN << W, k >>
    ELSE ScaleUp(MagMul(W, 10), k + 1)

\* W rounded to an integer, ties to even.
RoundToInt(W) ==
    LET frac == << W[4], W[5], W[6], W[7] >>
        half == << Base \div 2, 0, 0, 0 >>
        up == IF frac = half THEN W[3] % 2 = 1 ELSE ~ MagLess(frac, half)
    IN  IF up THEN MagAdd(WideInt(W), WideOne) ELSE WideInt(W)

\* W * 10^k.
RECURSIVE MulPow10(_, _)
MulPow10(W, k) ==
    IF k = 0 THEN W
    ELSE IF k >= 3 THEN MulPow10(MagMul(W, 1000), k - 3)
    ELSE MulPow10(MagMul(W, 10), k - 1)

\* W / 10^k, rounded down: << quotient, something was cut off >>.
RECURSIVE DivPow10(_, _, _)
DivPow10(W, k, sticky) ==
    IF k = 0 THEN << W, sticky >>
    ELSE LET m == IF k >= 3 THEN 1000 ELSE 10
             qr == MagDiv(W, m)
         IN  DivPow10(qr[1], IF k >= 3 THEN k - 3 ELSE k - 1, sticky \/ qr[2] # 0)

\* A magnitude with four more fraction limbs, for the quotient below.
Extend(W) == W \o << 0, 0, 0, 0 >>

\* The double nearest to the decimal I / 10^k (I an integer magnitude).
NearestDouble(I, k) ==
    LET qs == DivPow10(Extend(I), k, FALSE)
    IN  Round53(qs[1], qs[2])

\* The most significant digits a double is printed with at most.
MaxDigits == 17

\* S = A * 10^k in [1, 10) is the magnitude A of a double, scaled.  The two
\* decimals of d significant digits next to it are Below and Above, as
\* integers to be divided by 10^(k + d - 1); Rounded is the nearer of them,
\* the even one on a tie.
Below(S, d) == WideInt(MulPow10(S, d - 1))
Above(S, d) == MagAdd(WideInt(MulPow10(S, d - 1)), WideOne)
Rounded(S, d) == RoundToInt(MulPow10(S, d - 1))

\* The decimal I / 10^e reads back as the double of magnitude A.
ReadsBack(A, I, e) == NearestDouble(I, e) = Extend(Wide(A))

\* The least number of significant digits with which a decimal reads back
\* as A (MaxDigits digits always do).
ShortestLength(A, S, k) ==
    CHOOSE d \in 1 .. MaxDigits :
        /\ \/ d = MaxDigits
           \/ ReadsBack(A, Below(S, d), k + d - 1)
           \/ ReadsBack(A, Above(S, d), k + d - 1)
        /\ \A f \in 1 .. d - 1 :
              /\ ~ ReadsBack(A, Below(S, f), k + f - 1)
              /\ ~ ReadsBack(A, Above(S, f), k + f - 1)

\* The decimal of d digits that is printed: the one of Below and Above that
\* reads back as A, the nearer one if both do.
ShortestOfLength(A, S, k, d) ==
    IF ReadsBack(A, Below(S, d), k + d - 1) /\ ~ ReadsBack(A, Above(S, d), k + d - 1)
    THEN << Below(S, d), k + d - 1 >>
    ELSE IF ReadsBack(A, Above(S, d), k + d - 1) /\ ~ ReadsBack(A, Below(S, d), k + d - 1)
    THEN << Above(S, d), k + d - 1 >>
    ELSE << Rounded(S, d), k + d - 1 >>

\* The shortest decimal that reads back as the double of magnitude A, and
\* of the decimals of that length the one nearest to A: what repr prints.
\* << integer I, scale e >> stands for the decimal I / 10^e.
Shortest(A, S, k) == ShortestOfLength(A, S, k, ShortestLength(A, S, k))

\* The decimal digits of an integer magnitude, most significant first.
RECURSIVE IntDigits(_)
IntDigits(I) ==
    IF IsZeroMag(I) THEN << >>
    ELSE LET qr == MagDiv(I, 10)
         IN  Append(IntDigits(qr[1]), qr[2])

\* ds without its trailing zeros.
RECURSIVE StripZeros(_)
StripZeros(ds) ==
    IF Len(ds) > 1 /\ ds[Len(ds)] = 0 THEN StripZeros(SubSeq(ds, 1, Len(ds) - 1))
    ELSE ds

\* The digits ds (no trailing zeros) with the decimal point after the first
\* decpt of them, as repr lays them out: with an exponent if decpt > 16 or
\* decpt < -3, else plainly, with ".0" after a whole number.
ReprLayout(ds, decpt) ==
    IF decpt > 16 \/ decpt < -3
    THEN DigitChar(ds[1])
         \o (IF Len(ds) > 1 THEN "." \o DigitStr(ds, 2, Len(ds)) ELSE "")
         \o "e" \o (IF decpt - 1 < 0 THEN "-" ELSE "+")
         \o (IF decpt - 1 < 0
             THEN (IF 1 - decpt < 10 THEN "0" ELSE "") \o NatStr(1 - decpt)
             ELSE (IF decpt - 1 < 10 THEN "0" ELSE "") \o NatStr(decpt - 1))
    ELSE IF decpt <= 0
    THEN "0." \o Zeros(- decpt) \o DigitStr(ds, 1, Len(ds))
    ELSE IF decpt >= Len(ds)
    THEN DigitStr(ds, 1, Len(ds)) \o Zeros(decpt - Len(ds)) \o ".0"
    ELSE DigitStr(ds, 1, decpt) \o "." \o DigitStr(ds, decpt + 1, Len(ds))

\* The decimal << I, e >> = I / 10^e laid out: its digits, and the place of
\* the decimal point among them.
ReprDecimal(all, e) == ReprLayout(StripZeros(all), Len(all) - e)
ReprShortest(dec) == ReprDecimal(IntDigits(SubSeq(dec[1], 1, 3)), dec[2])
ReprScaled(A, sc) == ReprShortest(Shortest(A, sc[1], sc[2]))

\* repr of the magnitude A of a double that is not 0.
ReprMagnitude(A) == ReprScaled(A, ScaleUp(Wide(A), 0))

\* repr of the double v, as an f-string prints it: the shortest decimal that
\* reads back as v ("0.7", "0.2333333333333333", "-0.20000000000000018",
\* "0.0"), with an exponent below 0.0001 ("5.551115123125783e-17").
\* Fault variant: the value printed without fraction digits, f"{v:.0f}".
ReprFloat_int(v) ==
    (IF IsNegative(v) THEN "-" ELSE "")
    \o NatStr((Sign(v) * Round3(v) + 500) \div 1000)
ReprFloat(v) ==
    IF v = Zero THEN "0.0"
    ELSE (IF IsNegative(v) THEN "-" ELSE "") \o ReprMagnitude(Mag(v))

\* ----------------------------------------------------------------- tables
\* The arguments mesh_concentrations is called with in the runs tried, and
\* its result for each: the matrices, the rounded axis bounds of their
\* columns and the printed forms of their entries are computed once.
MeshInputs ==
    { << k, cfg[1], cfg[2], c >> : k \in 0 .. MaxN, cfg \in IndexConfigs, c \in CValues }
MeshTable ==
    [a \in MeshInputs |-> mesh_concentrations(a[1], a[2], a[3], a[4])]
AllColumns ==
    UNION { { Column(MeshTable[a], col) : col \in 0 .. a[1] - 1 } : a \in MeshInputs }
MaxTable == [comp \in AllColumns |-> max_concentration(comp)]
AllValues == UNION { Range(comp) : comp \in AllColumns }
ReprTable == [v \in AllValues |-> ReprFloat(v)]

\* f"Al{Al_x}-Cr{Cr_x}-Co{Co_x}-Fe{Fe_x}-Ni{Ni_x}.pkl" joined to output_dir,
\* for the printed forms r of <<Al_x, Cr_x, Co_x, Fe_x, Ni_x>>.
FileNameOf(r) ==
    "results/" \o "Al" \o r[1] \o "-Cr" \o r[2] \o "-Co" \o r[3]
    \o "-Fe" \o r[4] \o "-Ni" \o r[5] \o ".pkl"

\* The file name of the composition comp = <<Al_x, Cr_x, Co_x, Fe_x, Ni_x>>.
\* Fault variant: Cr_x printed in the place of Al_x.
FileName_CrTwice(comp) ==
    FileNameOf([k \in 1 .. 5 |-> ReprTable[comp[IF k = 1 THEN 2 ELSE k]]])
FileName(comp) == FileNameOf([k \in 1 .. 5 |-> ReprTable[comp[k]]])

\* ----------------------------------------------------------- orchestrator
\* Lists of constant concentrations of length 0..MaxLen.
CLists == UNION { [1 .. k -> CValues] : k \in 0 .. MaxLen }

\* Number of columns of a matrix: input_concentrations.shape[1].
Shape1(m) == Cardinality(DOMAIN m[0])

\* range(1, input_concentrations.shape[1] - 1): first index, exclusive stop.
RangeStart == 1
\* Fault variant: range(1, shape[1]), the last column not skipped.
RangeStop_all(cols) == cols
RangeStop(cols) == cols - 1

\* The number of open sessions after the __exit__ of the with statement has
\* closed the session of the block.
\* Fault variant: the session is not closed when the block is left.
SessionAfterExit_leak(s) == s
SessionAfterExit(s) == s - 1

\* except UnrecoverableCalculationException: print and go on with the loop.
\* Fault variant: no handler, the failure ends the run.
PcAfterUnrecoverable_halt == "fatal"
PcAfterUnrecoverable == "for_i"

\* Any other exception is not caught and leaves run_phase_diagram_calculations.
\* Fault variant: a bare except, every error is skipped like the failure.
PcAfterOther_caught == "for_i"
PcAfterOther == "fatal"

\* counter += 1
\* Fault variant: the counter starts again at 1 with every sweep.
CounterNext_reset(cn) == IF i = RangeStart THEN 1 ELSE cn + 1
CounterNext(cn) == cn + 1

NoPoint == << >>

Init ==
    /\ n \in 0 .. MaxN
    /\ constant_C_of_others \in CLists
    /\ \E cfg \in IndexConfigs :
          /\ indices_of_changing_elements = cfg[1]
          /\ indices_of_constant_elements = cfg[2]
    /\ output_dir_exists \in BOOLEAN
    /\ pc = "start"
    /\ p = 1
    /\ i = 0
    /\ input_concentrations = [r \in Rows |-> << >>]
    /\ counter = 0
    /\ x = << >>
    /\ max_concentration_on_x_axis = 0
    /\ session = 0
    /\ left_open = 0
    /\ conditions = << >>
    /\ files = << >>
    /\ attempts = << >>
    /\ sessions_opened = 0
    /\ saved = << >>
    /\ skipped = {}
    /\ fatal_at = NoPoint

\* ---------------------------------------------------------------- actions
Point == << p, i >>

\* Lines 123-124: os.makedirs raises (the name is taken though
\* os.path.exists is false, or the parent is not writable): the exception
\* leaves the function before any grid point.
MakedirsError ==
    /\ pc = "start"
    /\ ~ output_dir_exists
    /\ pc' = "fatal"
    /\ UNCHANGED << inputs, output_dir_exists, p, i, input_concentrations,
                    counter, x, max_concentration_on_x_axis, session,
                    left_open, conditions, files, attempts, sessions_opened,
                    saved, skipped, fatal_at >>

\* Lines 123-126: create the output directory if absent, counter = 0.
Start ==
    /\ pc = "start"
    /\ output_dir_exists' = TRUE
    /\ counter' = 0
    /\ pc' = "for_j"
    /\ UNCHANGED << inputs, p, i, input_concentrations, x,
                    max_concentration_on_x_axis, session, left_open,
                    conditions, files, attempts, sessions_opened, saved,
                    skipped, fatal_at >>

\* Lines 127-134: the next constant concentration; its mesh is computed.
NextConstantC ==
    /\ pc = "for_j"
    /\ p <= Len(constant_C_of_others)
    /\ input_concentrations' =
          MeshTable[<< n, indices_of_changing_elements,
                       indices_of_constant_elements, constant_C_of_others[p] >>]
    /\ i' = RangeStart
    /\ pc' = "for_i"
    /\ UNCHANGED << inputs, output_dir_exists, p, counter, x,
                    max_concentration_on_x_axis, session, left_open,
                    conditions, files, attempts, sessions_opened, saved,
                    skipped, fatal_at >>

\* Line 127, list exhausted: the function returns.
Finish ==
    /\ pc = "for_j"
    /\ p > Len(constant_C_of_others)
    /\ pc' = "done"
    /\ UNCHANGED << inputs, output_dir_exists, p, i, input_concentrations,
                    counter, x, max_concentration_on_x_axis, session,
                    left_open, conditions, files, attempts, sessions_opened,
                    saved, skipped, fatal_at >>

\* Lines 137-150: the next grid point: count it, read its five mole
\* fractions from rows 0..4, compute the bound of the first axis.
BeginPoint ==
    /\ pc = "for_i"
    /\ i < RangeStop(Shape1(input_concentrations))
    /\ counter' = CounterNext(counter)
    /\ attempts' = Append(attempts, Point)
    /\ x' = Column(input_concentrations, i)
    /\ max_concentration_on_x_axis' = MaxTable[Column(input_concentrations, i)]
    /\ conditions' = << >>
    /\ sessions_opened' = 0
    /\ pc' = "with"
    /\ UNCHANGED << inputs, output_dir_exists, p, i, input_concentrations,
                    session, left_open, files, saved, skipped, fatal_at >>

\* Lines 138-139: the point is counted, then print raises (standard output
\* is closed or broken): the exception leaves the function.
BeginPointError ==
    /\ pc = "for_i"
    /\ i < RangeStop(Shape1(input_concentrations))
    /\ counter' = CounterNext(counter)
    /\ attempts' = Append(attempts, Point)
    /\ sessions_opened' = 0
    /\ fatal_at' = Point
    /\ pc' = PcAfterOther
    /\ UNCHANGED << inputs, output_dir_exists, p, i, input_concentrations, x,
                    max_concentration_on_x_axis, session, left_open,
                    conditions, files, saved, skipped >>

\* Line 137, range exhausted: back to the outer loop.
EndSweep ==
    /\ pc = "for_i"
    /\ ~ (i < RangeStop(Shape1(input_concentrations)))
    /\ p' = p + 1
    /\ pc' = "for_j"
    /\ UNCHANGED << inputs, output_dir_exists, i, input_concentrations,
                    counter, x, max_concentration_on_x_axis, session,
                    left_open, conditions, files, attempts, sessions_opened,
                    saved, skipped, fatal_at >>

\* Line 154: with TCPython() as session.
EnterSession ==
    /\ pc = "with"
    /\ session' = session + 1
    /\ sessions_opened' = sessions_opened + 1
    /\ pc' = "build"
    /\ UNCHANGED << inputs, output_dir_exists, p, i, input_concentrations,
                    counter, x, max_concentration_on_x_axis, left_open,
                    conditions, files, attempts, saved, skipped, fatal_at >>

\* The print of the handler (line 197) returns, or raises: only reached
\* when the unrecoverable failure was caught.
HandlerPrints(raised) == IF raised = "unrecoverable" THEN BOOLEAN ELSE {TRUE}

\* What the try statement of lines 153-197 does with what leaves its block:
\* nothing raised, the loop goes on; UnrecoverableCalculationException, it
\* is caught, the handler prints and the loop goes on, and if that print
\* raises, its exception leaves the function; any other exception is not
\* caught and leaves the function.
Handle(raised) ==
    \E printed \in HandlerPrints(raised) :
        /\ pc' = IF ~ printed THEN PcAfterOther
                 ELSE CASE raised = "none" -> "for_i"
                        [] raised = "unrecoverable" -> PcAfterUnrecoverable
                        [] raised = "other" -> PcAfterOther
        /\ i' = IF raised = "other" \/ ~ printed THEN i ELSE i + 1
        /\ skipped' = IF raised = "unrecoverable" THEN skipped \cup {Point}
                      ELSE skipped
        /\ fatal_at' = IF raised = "other" \/ ~ printed THEN Point ELSE fatal_at
        /\ UNCHANGED << inputs, output_dir_exists, p, input_concentrations,
                        counter, x, max_concentration_on_x_axis, attempts,
                        sessions_opened >>

\* How the with block of line 154 can be left when raised ("none" at the end
\* of the block) is under way: << what leaves the with statement, the
\* session is closed >>.  The with statement calls the __exit__ of the
\* session on every way out of the block.  If __exit__ returns, the session
\* is closed and what was under way goes on; if __exit__ itself raises, its
\* exception takes the place of what was under way, and the code does
\* nothing more about the session, closed by then or not.
AfterBlock(raised) ==
    { << raised, TRUE >> }
    \cup ({"unrecoverable", "other"} \X BOOLEAN)

\* The with block is left with outcome out; the try statement handles what
\* leaves it.
LeaveBlock(out) ==
    /\ session' = IF out[2] THEN SessionAfterExit(session) ELSE session
    /\ left_open' = IF out[2] THEN left_open ELSE left_open + 1
    /\ Handle(out[1])

\* Line 154: TCPython() or its __enter__ raises the unrecoverable failure:
\* no session is opened, the handler skips the point.
EnterUnrecoverable ==
    /\ pc = "with"
    /\ Handle("unrecoverable")
    /\ UNCHANGED << session, left_open, conditions, files, saved >>

\* Line 154: TCPython() or its __enter__ raises another error: no session is
\* opened, the exception leaves the function.
EnterError ==
    /\ pc = "with"
    /\ Handle("other")
    /\ UNCHANGED << session, left_open, conditions, files, saved >>

\* Lines 155-178: the calculator is built; Cr, Co, Fe, Ni are set as
\* conditions.  0.025 / max_concentration_on_x_axis raises ZeroDivisionError
\* when the rounded bound is 0.
BuildOk ==
    /\ pc = "build"
    /\ max_concentration_on_x_axis # 0
    /\ conditions' = << x[2], x[3], x[4], x[5] >>
    /\ pc' = "calculate"
    /\ UNCHANGED << inputs, output_dir_exists, p, i, input_concentrations,
                    counter, x, max_concentration_on_x_axis, session,
                    left_open, files, attempts, sessions_opened, saved,
                    skipped, fatal_at >>

\* Lines 155-178: an engine call of the builder raises the unrecoverable
\* failure.
BuildUnrecoverable ==
    /\ pc = "build"
    /\ \E out \in AfterBlock("unrecoverable") : LeaveBlock(out)
    /\ UNCHANGED << conditions, files, saved >>

\* Lines 155-178: another error (ZeroDivisionError of line 164 among them).
BuildError ==
    /\ pc = "build"
    /\ \E out \in AfterBlock("other") : LeaveBlock(out)
    /\ UNCHANGED << conditions, files, saved >>

\* Line 180: calculator.calculate(timeout_in_minutes=15).
CalculateOk ==
    /\ pc = "calculate"
    /\ pc' = "group"
    /\ UNCHANGED << inputs, output_dir_exists, p, i, input_concentrations,
                    counter, x, max_concentration_on_x_axis, session,
                    left_open, conditions, files, attempts, sessions_opened,
                    saved, skipped, fatal_at >>

CalculateUnrecoverable ==
    /\ pc = "calculate"
    /\ \E out \in AfterBlock("unrecoverable") : LeaveBlock(out)
    /\ UNCHANGED << conditions, files, saved >>

CalculateError ==
    /\ pc = "calculate"
    /\ \E out \in AfterBlock("other") : LeaveBlock(out)
    /\ UNCHANGED << conditions, files, saved >>

\* Lines 181-188: the values grouped by stable phases are extracted.
GroupOk ==
    /\ pc = "group"
    /\ pc' = "save"
    /\ UNCHANGED << inputs, output_dir_exists, p, i, input_concentrations,
                    counter, x, max_concentration_on_x_axis, session,
                    left_open, conditions, files, attempts, sessions_opened,
                    saved, skipped, fatal_at >>

GroupUnrecoverable ==
    /\ pc = "group"
    /\ \E out \in AfterBlock("unrecoverable") : LeaveBlock(out)
    /\ UNCHANGED << conditions, files, saved >>

GroupError ==
    /\ pc = "group"
    /\ \E out \in AfterBlock("other") : LeaveBlock(out)
    /\ UNCHANGED << conditions, files, saved >>

\* Content of a file: the pickled result of a point, or what is left of it
\* when pickle.dump raised after open had truncated the file.
Pickled(pt) == << pt, TRUE >>
Truncated(pt) == << pt, FALSE >>

\* The output directory with file nm holding content c.
WithFile(fs, nm, c) ==
    [f \in DOMAIN fs \cup {nm} |-> IF f = nm THEN c ELSE fs[f]]

\* The log of saved results with the point being processed added.
SavedWithPoint ==
    Append(saved, [p |-> p, i |-> i, name |-> FileName(x),
                   x |-> x, conditions |-> conditions])

\* Lines 191-194 and save_groups: the result is pickled to the file named by
\* the five mole fractions and the name is printed; the with block ends,
\* __exit__ closes the session and the loop goes on.
SaveOk ==
    /\ pc = "save"
    /\ files' = WithFile(files, FileName(x), Pickled(Point))
    /\ saved' = SavedWithPoint
    /\ LeaveBlock(<< "none", TRUE >>)
    /\ UNCHANGED conditions

\* save_groups, line 17: open(filename, "wb") raises; no file is touched.
SaveOpenError ==
    /\ pc = "save"
    /\ \E out \in AfterBlock("other") : LeaveBlock(out)
    /\ UNCHANGED << conditions, files, saved >>

\* save_groups, line 18: open has created or truncated the file, then
\* pickle.dump raises; the file is left truncated.
SaveDumpError ==
    /\ pc = "save"
    /\ files' = WithFile(files, FileName(x), Truncated(Point))
    /\ \E out \in AfterBlock("other") : LeaveBlock(out)
    /\ UNCHANGED << conditions, saved >>

\* Lines 193-194: the file is written and closed, then the print of line 194
\* raises (standard output is closed or broken): the file is complete.
SavePrintError ==
    /\ pc = "save"
    /\ files' = WithFile(files, FileName(x), Pickled(Point))
    /\ saved' = SavedWithPoint
    /\ \E out \in AfterBlock("other") : LeaveBlock(out)
    /\ UNCHANGED conditions

\* Lines 193-194, 154: the file is written and its name printed, the block
\* ends and the __exit__ of the session raises: the file is complete; the
\* unrecoverable failure is handled and the loop goes on, another error
\* leaves the function.
SaveExitError ==
    /\ pc = "save"
    /\ files' = WithFile(files, FileName(x), Pickled(Point))
    /\ saved' = SavedWithPoint
    /\ \E out \in AfterBlock("none") \ { << "none", TRUE >> } : LeaveBlock(out)
    /\ UNCHANGED conditions

Next ==
    \/ Start
    \/ MakedirsError
    \/ NextConstantC
    \/ Finish
    \/ BeginPoint
    \/ BeginPointError
    \/ EndSweep
    \/ EnterSession
    \/ EnterUnrecoverable
    \/ EnterError
    \/ BuildOk
    \/ BuildUnrecoverable
    \/ BuildError
    \/ CalculateOk
    \/ CalculateUnrecoverable
    \/ CalculateError
    \/ GroupOk
    \/ GroupUnrecoverable
    \/ GroupError
    \/ SaveOk
    \/ SaveOpenError
    \/ SaveDumpError
    \/ SavePrintError
    \/ SaveExitError

Spec == Init /\ [][Next]_vars

\* The run is sequential code: it takes its next step whenever it has one.
\* The fair runs are those with the default indices.
InitDefault ==
    /\ Init
    /\ indices_of_changing_elements = <<0, 1>>
    /\ indices_of_constant_elements = <<2, 3, 4>>

FairSpec == InitDefault /\ [][Next]_vars /\ WF_vars(Next)

TypeOK ==
    /\ pc \in {"start", "for_j", "for_i", "with", "build", "calculate", "group",
               "save", "done", "fatal"}
    /\ session \in 0 .. MaxLen * MaxN
    /\ left_open \in 0 .. MaxLen * MaxN

\* ------------------------------------------------------- shared vocabulary
\* The mesh of the current sweep has been computed.
InSweep == pc \in {"for_i", "with", "build", "calculate", "group", "save"}

\* The run is inside the with block of a point.
InSession == pc \in {"build", "calculate", "group", "save"}

\* Interior grid indices of a sweep with n columns.
Interior == 1 .. n - 2

Columns == DOMAIN input_concentrations[0]

\* Exact arithmetic on floats, nothing rounded: the sum of five floats, a
\* float times a natural number below 2^11, and |u - y| <= tol.
ExactSum(comp) ==
    ExactAdd(ExactAdd(ExactAdd(ExactAdd(comp[1], comp[2]), comp[3]), comp[4]),
             comp[5])
ExactMul(u, m) == MkFloat(Sign(u), MagMul(Mag(u), m))
Near(u, y, tol) == ~ MagLess(tol, Mag(ExactAdd(u, FNeg(y))))

\* The floating-point tolerance: 2^-50, four units in the last place of 1.
Tolerance == << 0, 0, 0, 2 ^ 10, 0 >>

\* The exact sum of a column is 1 within the tolerance; computed once for
\* the columns of every matrix.
SumsToOne == [comp \in AllColumns |-> Near(ExactSum(comp), One, Tolerance)]

\* The point after point pt in the order of the run (n >= 3).
Successor(pt) == IF pt[2] < n - 2 THEN << pt[1], pt[2] + 1 >> ELSE << pt[1] + 1, 1 >>

\* Every pair (list position, interior index) in the order of the run.
AllPoints ==
    IF n < 3 THEN << >>
    ELSE [k \in 1 .. Len(constant_C_of_others) * (n - 2) |->
             << ((k - 1) \div (n - 2)) + 1, ((k - 1) % (n - 2)) + 1 >>]

NoDuplicates(s) == \A k, l \in DOMAIN s : k # l => s[k] # s[l]

\* The matrix of the sweep of list position q.
MeshOf(q) ==
    MeshTable[<< n, indices_of_changing_elements,
                 indices_of_constant_elements, constant_C_of_others[q] >>]

\* The content written under name nm by the last saved result of that name.
LastWriter(nm) ==
    LET ks == { k \in DOMAIN saved : saved[k].name = nm }
        last == CHOOSE k \in ks : \A l \in ks : l <= k
    IN  Pickled(<< saved[last].p, saved[last].i >>)

\* The default indices of run_phase_diagram_calculations.
DefaultIndices ==
    /\ indices_of_changing_elements = <<0, 1>>
    /\ indices_of_constant_elements = <<2, 3, 4>>

\* The constant concentrations of the list are pairwise distinct, and none
\* has sweep range 1 - 3c = 0 unless the indices are the default ones (with
\* them such a sweep divides by max_concentration_on_x_axis = 0 at its first
\* point and saves nothing).
DistinctSweeps ==
    /\ NoDuplicates(constant_C_of_others)
    /\ \/ DefaultIndices
       \/ \A k \in DOMAIN constant_C_of_others : 3 * constant_C_of_others[k] # Unit

\* ------------------------------------------------------------------ claims

\* C1: for n >= 1 and any c, with two distinct changing indices and three
\* constant indices distinct from them, every column of the matrix returned
\* by mesh_concentrations sums to 1 within floating-point tolerance (the
\* exact sum of the five doubles differs from 1 by at most 2^-50).
C1_ColumnsSumToOne ==
    (/\ InSweep
     /\ n >= 1
     /\ ValidIndices(indices_of_changing_elements, indices_of_constant_elements))
    => \A col \in Columns : SumsToOne[Column(input_concentrations, col)]

\* A valid layout, four columns, c = 0.1: an interior column with every
\* element present.
C1_Witness ==
    /\ InSweep
    /\ n = 4
    /\ ValidIndices(indices_of_changing_elements, indices_of_constant_elements)
    /\ constant_C_of_others[p] = 3
    /\ Columns = 0 .. 3
    /\ \A r \in Rows : /\ input_concentrations[r][1] # Zero
                       /\ ~ IsNegative(input_concentrations[r][1])

\* C2: for n >= 2, column 0 holds 0 for the first changing element and 1-3c
\* for the second, column n-1 holds 1-3c for the first and 0 (within the
\* tolerance) for the second, and from each column to the next the first
\* changing element rises by (1-3c)/(n-1) (within the tolerance).  1-3c is
\* the double the code computes for it.
C2_EndpointsAndEqualSteps ==
    (InSweep /\ n >= 2) =>
        LET first  == indices_of_changing_elements[1]
            second == indices_of_changing_elements[2]
            range  == FSub(One, FMul(FloatOf(constant_C_of_others[p]), 3))
        IN  /\ Columns = 0 .. n - 1
            /\ input_concentrations[first][0] = Zero
            /\ input_concentrations[second][0] = range
            /\ input_concentrations[first][n - 1] = range
            /\ Near(input_concentrations[second][n - 1], Zero, Tolerance)
            /\ \A col \in 1 .. n - 1 :
                  Near(ExactMul(ExactAdd(input_concentrations[first][col],
                                         FNeg(input_concentrations[first][col - 1])),
                                n - 1),
                       range, MagMul(Tolerance, n - 1))

\* The sweep of c = 0.1 with the default indices and more than two steps:
\* Al is 0 and Cr is 0.7 in column 0, Al is 0.7 and Cr is 0 in column 3.
C2_Witness ==
    /\ InSweep
    /\ n = 4
    /\ indices_of_changing_elements = <<0, 1>>
    /\ constant_C_of_others[p] = 3
    /\ ReprTable[input_concentrations[0][0]] = "0.0"
    /\ ReprTable[input_concentrations[1][0]] = "0.7"
    /\ ReprTable[input_concentrations[0][3]] = "0.7"
    /\ ReprTable[input_concentrations[1][3]] = "0.0"

\* C9: every entry of the composition matrix is >= 0, for every n and c the
\* orchestrator passes to mesh_concentrations.
C9_AllEntriesNonNegative ==
    InSweep => \A r \in Rows : \A col \in Columns :
                   ~ IsNegative(input_concentrations[r][col])

\* C3: no session is opened, no calculation requested and no file written for
\* grid index 0 or n-1: every point started, every session opened, every step
\* inside the try and every file belongs to an interior index 1..n-2.
C3_OnlyInteriorIndices ==
    /\ pc \in {"with", "build", "calculate", "group", "save"} => i \in Interior
    /\ \A k \in DOMAIN attempts : attempts[k][2] \in Interior
    /\ session > left_open => i \in Interior
    /\ (sessions_opened > 0 \/ session > 0) =>
          /\ attempts # << >>
          /\ attempts[Len(attempts)][2] \in Interior
    /\ \A k \in DOMAIN saved : saved[k].i \in Interior
    /\ \A f \in DOMAIN files : files[f][1][2] \in Interior
    /\ \A pt \in skipped : pt[2] \in Interior
    /\ fatal_at # NoPoint => fatal_at[2] \in Interior

\* A finished run over four columns that processed both interior points of a
\* sweep and saved them.
C3_Witness ==
    /\ pc = "done"
    /\ n = 4
    /\ Len(saved) >= 2
    /\ Len(attempts) = 2 * Len(constant_C_of_others)

CaughtStep == skipped' # skipped

\* C4 amended (state part): a point at which the failure was caught occurs
\* once among the points started; the point started after it is its
\* successor; if it is the last point started, the run is at a loop head or
\* has returned, having started every point, or it has ended at that very
\* point with the error of the handler's print.
C4_CaughtPoints ==
    \A k \in DOMAIN attempts :
        attempts[k] \in skipped =>
            /\ \A l \in DOMAIN attempts : l # k => attempts[l] # attempts[k]
            /\ fatal_at = attempts[k] => (k = Len(attempts) /\ pc = "fatal")
            /\ IF k < Len(attempts)
               THEN attempts[k + 1] = Successor(attempts[k])
               ELSE \/ pc = "fatal" /\ fatal_at = attempts[k]
                    \/ /\ pc \in {"for_i", "for_j", "done"}
                       /\ pc = "done" =>
                             attempts[k] = << Len(constant_C_of_others), n - 2 >>

NamesTellCompositions ==
    \A a, b \in AllColumns : (a = b) <=> (FileName(a) = FileName(b))

\* C6: the file name of a saved point is built from rows 0..4 of the matrix
\* at the point's column, in the order Al, Cr, Co, Fe, Ni; the Cr, Co, Fe, Ni
\* values of the name are the conditions set for the calculation; two
\* points have the same name exactly if they have the same five values.
\* (The log of saved results only grows, so the first part is stated of its
\* newest entry: it holds of every entry from the state it was appended in.)
C6_FileNameEncodesComposition ==
    /\ \A k \in DOMAIN saved : k = Len(saved) =>
          LET m == MeshOf(saved[k].p)
              col == saved[k].i
          IN  /\ saved[k].name =
                    "results/Al" \o ReprTable[m[0][col]]
                    \o "-Cr" \o ReprTable[m[1][col]]
                    \o "-Co" \o ReprTable[m[2][col]]
                    \o "-Fe" \o ReprTable[m[3][col]]
                    \o "-Ni" \o ReprTable[m[4][col]] \o ".pkl"
              /\ saved[k].conditions =
                    << m[1][col], m[2][col], m[3][col], m[4][col] >>
              /\ saved[k].name \in DOMAIN files
    /\ \A k, l \in DOMAIN saved :
          (saved[k].x = saved[l].x) <=> (saved[k].name = saved[l].name)
    /\ NamesTellCompositions

\* Three saved points: two with the same five values (a repeated constant
\* concentration) and one that differs from them, the newest printed with
\* all the digits of its doubles.
C6_Witness ==
    /\ saved # << >>
    /\ saved[Len(saved)].name =
          "results/Al0.4666666666666666-Cr0.2333333333333334-Co0.1-Fe0.1-Ni0.1.pkl"
    /\ \E k, l, m \in DOMAIN saved :
          /\ k # l
          /\ saved[k].x = saved[l].x
          /\ saved[k].name = saved[l].name
          /\ saved[m].x # saved[k].x
          /\ saved[m].name # saved[k].name

\* C7 as stated: for any list of constant concentrations (repeated values
\* and values with 1-3c = 0 included; the default indices), no file written
\* earlier in the run is overwritten by a later grid point.
C7_NeverOverwritten ==
    DefaultIndices => \A k, l \in DOMAIN saved : k # l => saved[k].name # saved[l].name

\* C7 amended: with a list of pairwise distinct constant concentrations
\* (and, with indices other than the default ones, none of sweep range
\* 1-3c = 0), every saved point has its own file, written once: no two saved
\* points share a name, each file holds the result of its point, the saved
\* points are points started, in the order started, and the point last
\* saved precedes the point being processed.
C7_OwnFileWhenDistinct ==
    DistinctSweeps
    =>  /\ \A k, l \in DOMAIN saved : k # l => saved[k].name # saved[l].name
        /\ \A k \in DOMAIN saved :
              /\ saved[k].name \in DOMAIN files
              /\ files[saved[k].name] = Pickled(<< saved[k].p, saved[k].i >>)
              /\ \E a \in DOMAIN attempts :
                    /\ attempts[a] = << saved[k].p, saved[k].i >>
                    /\ InSession => a < Len(attempts)
                    /\ \A l \in DOMAIN saved : l < k =>
                          \E b \in 1 .. a - 1 :
                              attempts[b] = << saved[l].p, saved[l].i >>
        /\ Cardinality(DOMAIN files) >= Len(saved)

\* A finished run over two distinct constant concentrations that saved four
\* points to four files.
C7_Witness ==
    /\ pc = "done"
    /\ DistinctSweeps
    /\ Len(saved) = 4
    /\ Cardinality(DOMAIN files) = 4

\* C8 as stated: an error other than the unrecoverable-calculation failure
\* ends the run at that point, no later point is started, and every file
\* written for an earlier point still holds what was last written to it
\* (the default indices).
C8_FatalKeepsEarlierFiles ==
    (fatal_at # NoPoint /\ DefaultIndices) =>
        /\ pc = "fatal"
        /\ attempts[Len(attempts)] = fatal_at
        /\ \A k \in DOMAIN saved : files[saved[k].name] = LastWriter(saved[k].name)

\* The step at which an error other than the unrecoverable failure leaves
\* the try statement of a point.
FatalStep == fatal_at' # fatal_at

\* C8 amended: nothing is done after the run has ended with an error; the
\* step of the error ends the run at the point being processed, removes no
\* file and changes no file, except that an error raised by save_groups
\* after it opened the file, or after it, leaves the file named after the
\* five mole fractions of the point truncated, or holding the result of the
\* point: the file of an earlier point only if that point had the same five
\* mole fractions.
C8_FatalKeepsFilesOfOtherNames ==
    [][/\ pc # "fatal"
       /\ FatalStep =>
             /\ fatal_at = NoPoint
             /\ fatal_at' = Point
             /\ pc' = "fatal"
             /\ attempts'[Len(attempts')] = fatal_at'
             /\ DOMAIN files \subseteq DOMAIN files'
             /\ pc # "save" => files' = files
             /\ \A f \in DOMAIN files :
                   \/ files'[f] = files[f]
                   \/ /\ f = FileName(x)
                      /\ files'[f] \in {Truncated(Point), Pickled(Point)}]_vars

\* A run ended by an error while dumping the result of its second or later
\* point, an earlier point with other mole fractions saved and kept.
C8_Witness ==
    /\ pc = "fatal"
    /\ fatal_at # NoPoint
    /\ x # << >>
    /\ FileName(x) \in DOMAIN files
    /\ files[FileName(x)] = Truncated(fatal_at)
    /\ \E k \in DOMAIN saved :
          /\ saved[k].x # x
          /\ files[saved[k].name] = Pickled(<< saved[k].p, saved[k].i >>)

\* C10 (state part): the counter is the number of points started, failed ones
\* included, never reset; the points started are a prefix of the pairs (list
\* position, interior index) in the order of the run; a run that returns has
\* started them all, so the counter ends at len(list) * max(n-2, 0).
C10_Order ==
    /\ pc # "start" => counter = Len(attempts)
    /\ Len(attempts) <= Len(AllPoints)
    /\ \A k \in DOMAIN attempts : attempts[k] = AllPoints[k]
    /\ pc = "done" =>
          /\ attempts = AllPoints
          /\ counter = Len(constant_C_of_others)
                       * (IF n - 2 > 0 THEN n - 2 ELSE 0)

\* C10: the run terminates: it returns unless an error other than the
\* unrecoverable failure ends it; and the state part holds throughout.
C10_TerminatesInOrder ==
    /\ []C10_Order
    /\ <>(pc = "done" \/ pc = "fatal")

\* A run that returned after starting four points, one of them given up.
C10_Witness ==
    /\ pc = "done"
    /\ counter = 4
    /\ Len(constant_C_of_others) = 2
    /\ Cardinality(skipped) = 1

====
